---- MODULE Spec2Model ----
(***************************************************************************)
(* ScanGenius: the App component (src/unnamed/part_000).  The state is the *)
(* component's useState cells plus, for every async handler that is        *)
(* suspended at an await, its position and its locals.  One action is one  *)
(* step of a handler between two suspension points; the head of the page   *)
(* loop is a step of its own, so that every setStatus call of a handler is *)
(* a step.  history is the run's record of the collaborator calls that     *)
(* have returned, kept for the properties.  Text is a sequence of          *)
(* one-character strings, so that the page marker template, trim() and the *)
(* archive member names are computed, not assumed.  analyzeCalls counts    *)
(* the analyzeText calls that have not returned; what such a call resolves *)
(* to is the collaborator's choice.  savedZip is the archive last handed   *)
(* to saveAs, with the pages it was built from.                            *)
(* darkMode (line 25) and handleDownloadText (lines 130-133) touch no      *)
(* state any other handler reads and are left out.                         *)
(***************************************************************************)
EXTENDS Integers, Sequences, FiniteSets

VARIABLES status, currentFile, pdfDoc, totalPages, extractedPages,
          processingProgress, activeTab, editorText, analysis, isAnalyzing,
          showConfig,
          loadCall,
          procPc, config, pagesToProcess, i, base64Image, fullTextAccumulator,
          history,
          analyzeCalls, savedZip

appVars  == <<status, currentFile, pdfDoc, totalPages, extractedPages,
              processingProgress, activeTab, editorText, analysis,
              isAnalyzing, showConfig>>
procVars == <<procPc, config, pagesToProcess, i, base64Image,
              fullTextAccumulator, history>>
vars     == <<appVars, loadCall, procVars, analyzeCalls, savedZip>>

-----------------------------------------------------------------------------
(* Bounds *)

\* largest page count of a selectable document
MaxPages == 2
\* analyzeText calls that may be outstanding at once
MaxCalls == 2

-----------------------------------------------------------------------------
(* Values *)

\* null is the empty sequence, a value v is <<v>>
Null == <<>>
Some(v) == <<v>>

AppStatus == {"IDLE", "LOADING_PDF", "PROCESSING", "COMPLETED", "ERROR"}
ProcessingMode == {"ALL", "SINGLE", "RANGE"}
Tabs == {"editor", "images", "analysis"}

\* the files the user can pick: one that getDocument rejects, and one per
\* page count
Files == {[valid |-> FALSE, numPages |-> 0]} \cup
         {[valid |-> TRUE, numPages |-> n] : n \in 1..MaxPages}

\* page numbers the configuration form can hand over; for the one-page
\* document the larger ones are out of its range
PageVals == 1..MaxPages

ProcessingConfig ==
    {[mode |-> "ALL", singlePage |-> 1, rangeStart |-> 1, rangeEnd |-> 1]} \cup
    {[mode |-> "SINGLE", singlePage |-> p, rangeStart |-> 1, rangeEnd |-> 1] :
        p \in PageVals} \cup
    {[mode |-> "RANGE", singlePage |-> 1, rangeStart |-> a, rangeEnd |-> b] :
        a \in PageVals, b \in PageVals}

NL == "\n"

\* what performOCR can return: a letter, or a page whose own print reads
\* "--- Page 2 ---"
OcrTexts == { <<"a">>,
              <<"-", "-", "-", " ", "P", "a", "g", "e", " ", "2", " ",
                "-", "-", "-">> }

\* what the user can leave in the textarea
EditTexts == { <<>>, <<" ", NL>>, <<" ", "b", NL>> }

-----------------------------------------------------------------------------
(* Pure helpers *)

DigitChar == <<"0", "1", "2", "3", "4", "5", "6", "7", "8", "9">>

\* `${n}` for an integer n
RECURSIVE NumberToString(_)
NumberToString(n) ==
    IF n < 0 THEN <<"-">> \o NumberToString(0 - n)
    ELSE IF n < 10 THEN <<DigitChar[n + 1]>>
    ELSE NumberToString(n \div 10) \o <<DigitChar[(n % 10) + 1]>>

IsWhitespace(c) == c \in {" ", NL, "\t", "\r"}

RECURSIVE TrimStart(_)
TrimStart(s) ==
    IF s # <<>> /\ IsWhitespace(Head(s)) THEN TrimStart(Tail(s)) ELSE s

RECURSIVE TrimEnd(_)
TrimEnd(s) ==
    IF s # <<>> /\ IsWhitespace(s[Len(s)])
    THEN TrimEnd(SubSeq(s, 1, Len(s) - 1)) ELSE s

\* String.prototype.trim
Trim(s) == TrimEnd(TrimStart(s))

\* the loop with i < to for its condition
RECURSIVE PushRangeStrict(_, _, _)
PushRangeStrict(acc, from, to) ==
    IF from < to THEN PushRangeStrict(Append(acc, from), from + 1, to) ELSE acc

\* for (let i = from; i <= to; i++) pagesToProcess.push(i)
RECURSIVE PushRange(_, _, _)
PushRange(acc, from, to) ==
    IF from <= to THEN PushRange(Append(acc, from), from + 1, to) ELSE acc

\* lines 70-77
PagesToProcess(cfg, total) ==
    IF cfg.mode = "SINGLE" THEN <<cfg.singlePage>>
    ELSE IF cfg.mode = "RANGE" THEN PushRange(<<>>, cfg.rangeStart, cfg.rangeEnd)
    ELSE PushRange(<<>>, 1, total)

\* `\n\n--- Page ${pageNum} ---\n\n${text}`
PageText(pageNum, text) ==
    <<NL, NL, "-", "-", "-", " ", "P", "a", "g", "e", " ">> \o NumberToString(pageNum)
        \o <<" ", "-", "-", "-", NL, NL>> \o text

\* the data URL renderPageAsImage resolves to, as split(',') sees it
ImageUrl(doc, pageNum) == <<"data:image/jpeg;base64", pageNum>>

\* page.imageUrl.split(',')[1]
ImgData(imageUrl) == imageUrl[2]

\* the member name without the page number
MemberNameNoNumber(pageNumber) ==
    <<"p", "a", "g", "e", "_", ".", "j", "p", "g">>

\* `page_${page.pageNumber}.jpg`
MemberName(pageNumber) ==
    <<"p", "a", "g", "e", "_">> \o NumberToString(pageNumber) \o <<".", "j", "p", "g">>

\* zip.file(name, data): a member of that name is replaced
ZipFile(zip, name, data) ==
    [n \in (DOMAIN zip) \cup {name} |-> IF n = name THEN data ELSE zip[n]]

\* extractedPages.forEach(page => zip.file(...))
RECURSIVE ZipPages(_, _)
ZipPages(zip, pages) ==
    IF pages = <<>> THEN zip
    ELSE ZipPages(ZipFile(zip, MemberName(Head(pages).pageNumber),
                          ImgData(Head(pages).imageUrl)),
                  Tail(pages))

\* what handleDownloadImages reads of the extracted pages it closes over
PagesRead(pages) ==
    [k \in 1..Len(pages) |->
        [pageNumber |-> pages[k].pageNumber, imageUrl |-> pages[k].imageUrl]]

EmptyZip == [n \in {} |-> 0]

\* the pages renderPageAsImage can render: those of the document
CanRender(doc, pageNum) == pageNum \in 1..doc.numPages

\* what analyzeText can resolve to
AnalysisResults == {[summary |-> "s1"], [summary |-> "s2"]}

-----------------------------------------------------------------------------
(* What is on screen: lines 169-173, 198-206, 400-409 *)

\* the New button on every screen but the home screen
ResetRenderedOffHome == status # "IDLE"

HomeRendered == status = "IDLE"
ProcessingRendered == status \in {"PROCESSING", "LOADING_PDF"}
WorkspaceRendered == status = "COMPLETED"
ResetRendered == status = "COMPLETED"
ConfigPanelRendered == HomeRendered /\ showConfig
FileUploaderRendered == HomeRendered /\ ~showConfig
GenerateButtonRendered ==
    WorkspaceRendered /\ activeTab = "analysis" /\ analysis = Null /\ ~isAnalyzing
EditorRendered == WorkspaceRendered /\ activeTab = "editor"

-----------------------------------------------------------------------------
Init ==
    /\ status = "IDLE"
    /\ currentFile = Null
    /\ pdfDoc = Null
    /\ totalPages = 0
    /\ extractedPages = <<>>
    /\ processingProgress = [current |-> 0, total |-> 0]
    /\ activeTab = "editor"
    /\ editorText = <<>>
    /\ analysis = Null
    /\ isAnalyzing = FALSE
    /\ showConfig = FALSE
    /\ loadCall = Null
    /\ procPc = "idle"
    /\ config = Null
    /\ pagesToProcess = <<>>
    /\ i = 0
    /\ base64Image = Null
    /\ fullTextAccumulator = <<>>
    /\ history = <<>>
    /\ analyzeCalls = 0
    /\ savedZip = Null

-----------------------------------------------------------------------------
(* handleFileSelect, lines 47-61 *)

\* lines 49-51: up to the await of getDocument(file)
handleFileSelect(file) ==
    /\ FileUploaderRendered
    /\ status' = "LOADING_PDF"
    /\ currentFile' = Some(file)
    /\ loadCall' = Some(file)
    /\ UNCHANGED <<pdfDoc, totalPages, extractedPages, processingProgress,
                   activeTab, editorText, analysis, isAnalyzing, showConfig,
                   procVars, analyzeCalls, savedZip>>

\* lines 52-55: getDocument resolved
LoadResolved ==
    /\ loadCall # Null
    /\ loadCall[1].valid
    /\ pdfDoc' = Some([numPages |-> loadCall[1].numPages])
    /\ totalPages' = loadCall[1].numPages
    /\ showConfig' = TRUE
    /\ status' = "IDLE"
    /\ loadCall' = Null
    /\ UNCHANGED <<currentFile, extractedPages, processingProgress, activeTab,
                   editorText, analysis, isAnalyzing, procVars, analyzeCalls,
                   savedZip>>

\* lines 56-60: getDocument rejected
LoadRejected ==
    /\ loadCall # Null
    /\ ~loadCall[1].valid
    /\ status' = "ERROR"
    /\ loadCall' = Null
    /\ UNCHANGED <<currentFile, pdfDoc, totalPages, extractedPages,
                   processingProgress, activeTab, editorText, analysis,
                   isAnalyzing, showConfig, procVars, analyzeCalls, savedZip>>

\* line 202: onCancel of the configuration panel
onCancel ==
    /\ ConfigPanelRendered
    /\ showConfig' = FALSE
    /\ currentFile' = Null
    /\ UNCHANGED <<status, pdfDoc, totalPages, extractedPages,
                   processingProgress, activeTab, editorText, analysis,
                   isAnalyzing, loadCall, procVars, analyzeCalls, savedZip>>

-----------------------------------------------------------------------------
(* startProcessing, lines 64-112 *)

\* lines 65-81: onStart of the configuration panel, up to the loop
startProcessing(cfg) ==
    /\ ConfigPanelRendered
    /\ showConfig' = FALSE
    /\ status' = "PROCESSING"
    /\ extractedPages' = <<>>
    /\ editorText' = <<>>
    /\ config' = Some(cfg)
    /\ pagesToProcess' = PagesToProcess(cfg, totalPages)
    /\ processingProgress' =
           [current |-> 0, total |-> Len(PagesToProcess(cfg, totalPages))]
    /\ fullTextAccumulator' = <<>>
    /\ i' = 0
    /\ base64Image' = Null
    /\ history' = <<>>
    /\ procPc' = "loop"
    /\ UNCHANGED <<currentFile, pdfDoc, totalPages, activeTab, analysis,
                   isAnalyzing, loadCall, analyzeCalls, savedZip>>

\* line 83 with i < length: lines 84-87, up to the await of renderPageAsImage
LoopEnter ==
    /\ procPc = "loop"
    /\ i < Len(pagesToProcess)
    /\ procPc' = "render"
    /\ UNCHANGED <<appVars, loadCall, config, pagesToProcess, i, base64Image,
                   fullTextAccumulator, history, analyzeCalls, savedZip>>

\* line 83 with i = length: line 111, and the handler returns
LoopExit ==
    /\ procPc = "loop"
    /\ ~(i < Len(pagesToProcess))
    /\ status' = "COMPLETED"
    /\ procPc' = "idle"
    /\ config' = Null
    /\ pagesToProcess' = <<>>
    /\ i' = 0
    /\ base64Image' = Null
    /\ fullTextAccumulator' = <<>>
    /\ history' = <<>>
    /\ UNCHANGED <<currentFile, pdfDoc, totalPages, extractedPages,
                   processingProgress, activeTab, editorText, analysis,
                   isAnalyzing, showConfig, loadCall, analyzeCalls, savedZip>>

\* an entry of history: a collaborator call of the run that has returned
Returned(op, pageNum, ok, text) ==
    [op |-> op, page |-> pageNum, ok |-> ok, text |-> text]

\* lines 87-90: the render resolved, up to the await of performOCR
RenderResolved ==
    /\ procPc = "render"
    /\ CanRender(pdfDoc[1], pagesToProcess[i + 1])
    /\ base64Image' = Some(ImageUrl(pdfDoc[1], pagesToProcess[i + 1]))
    /\ history' = Append(history,
                     Returned("render", pagesToProcess[i + 1], TRUE, <<>>))
    /\ procPc' = "ocr"
    /\ UNCHANGED <<appVars, loadCall, config, pagesToProcess, i,
                   fullTextAccumulator, analyzeCalls, savedZip>>

\* a failed page is tried again: i is not advanced
CatchPageRetry(op) ==
    /\ history' = Append(history,
                     Returned(op, pagesToProcess[i + 1], FALSE, <<>>))
    /\ i' = i
    /\ base64Image' = Null
    /\ procPc' = "loop"
    /\ UNCHANGED <<appVars, loadCall, config, pagesToProcess,
                   fullTextAccumulator, analyzeCalls, savedZip>>

\* a failed page ends the loop: the catch is around the loop, not in it
CatchPageAbort(op) ==
    /\ history' = Append(history,
                     Returned(op, pagesToProcess[i + 1], FALSE, <<>>))
    /\ i' = Len(pagesToProcess)
    /\ base64Image' = Null
    /\ procPc' = "loop"
    /\ UNCHANGED <<appVars, loadCall, config, pagesToProcess,
                   fullTextAccumulator, analyzeCalls, savedZip>>

\* lines 106-108 and the i++ of line 83: the page is skipped
CatchPage(op) ==
    /\ history' = Append(history,
                     Returned(op, pagesToProcess[i + 1], FALSE, <<>>))
    /\ i' = i + 1
    /\ base64Image' = Null
    /\ procPc' = "loop"
    /\ UNCHANGED <<appVars, loadCall, config, pagesToProcess,
                   fullTextAccumulator, analyzeCalls, savedZip>>

\* the render rejected
RenderRejected ==
    /\ procPc = "render"
    /\ CatchPage("render")

\* the page's block is put before the text so far, not after it
OcrResolvedPrepend(text) ==
    /\ procPc = "ocr"
    /\ LET pageNum == pagesToProcess[i + 1]
           newPage == [pageNumber |-> pageNum, imageUrl |-> base64Image[1],
                       text |-> text]
           pageText == PageText(pageNum, text)
       IN /\ extractedPages' = Append(extractedPages, newPage)
          /\ fullTextAccumulator' = pageText \o fullTextAccumulator
          /\ editorText' = pageText \o editorText
          /\ processingProgress' =
                 [current |-> i + 1, total |-> Len(pagesToProcess)]
          /\ history' = Append(history, Returned("ocr", pageNum, TRUE, text))
    /\ i' = i + 1
    /\ base64Image' = Null
    /\ procPc' = "loop"
    /\ UNCHANGED <<status, currentFile, pdfDoc, totalPages, activeTab,
                   analysis, isAnalyzing, showConfig, loadCall, config,
                   pagesToProcess, analyzeCalls, savedZip>>

\* lines 90-105 and the i++ of line 83: performOCR resolved with text
OcrResolved(text) ==
    /\ procPc = "ocr"
    /\ LET pageNum == pagesToProcess[i + 1]
           newPage == [pageNumber |-> pageNum, imageUrl |-> base64Image[1],
                       text |-> text]
           pageText == PageText(pageNum, text)
       IN /\ extractedPages' = Append(extractedPages, newPage)
          /\ fullTextAccumulator' = fullTextAccumulator \o pageText
          /\ editorText' = editorText \o pageText
          /\ processingProgress' =
                 [current |-> i + 1, total |-> Len(pagesToProcess)]
          /\ history' = Append(history, Returned("ocr", pageNum, TRUE, text))
    /\ i' = i + 1
    /\ base64Image' = Null
    /\ procPc' = "loop"
    /\ UNCHANGED <<status, currentFile, pdfDoc, totalPages, activeTab,
                   analysis, isAnalyzing, showConfig, loadCall, config,
                   pagesToProcess, analyzeCalls, savedZip>>

\* performOCR rejected
OcrRejected ==
    /\ procPc = "ocr"
    /\ CatchPage("ocr")

-----------------------------------------------------------------------------
(* handleAnalyze, lines 115-127, and the workspace's controls *)

\* lines 116-120: up to the await of analyzeText(editorText)
\* the guard of line 116 without trim()
handleAnalyzeNoTrim(tab) ==
    IF editorText = <<>>
    THEN /\ activeTab' = tab
         /\ UNCHANGED <<isAnalyzing, analyzeCalls>>
    ELSE /\ analyzeCalls < MaxCalls
         /\ isAnalyzing' = TRUE
         /\ activeTab' = "analysis"
         /\ analyzeCalls' = analyzeCalls + 1

\* tab is the active tab the handler was called with: the one on screen for
\* the button, 'analysis' for the tab button, which sets it first
handleAnalyze(tab) ==
    IF Trim(editorText) = <<>>
    THEN /\ activeTab' = tab
         /\ UNCHANGED <<isAnalyzing, analyzeCalls>>
    ELSE /\ analyzeCalls < MaxCalls
         /\ isAnalyzing' = TRUE
         /\ activeTab' = "analysis"
         /\ analyzeCalls' = analyzeCalls + 1

\* line 336: the Generate Analysis button
clickGenerateAnalysis ==
    /\ GenerateButtonRendered
    /\ handleAnalyze(activeTab)
    /\ UNCHANGED <<status, currentFile, pdfDoc, totalPages, extractedPages,
                   processingProgress, editorText, analysis, showConfig,
                   loadCall, procVars, savedZip>>

\* line 267: the AI Analysis tab button
clickAnalysisTab ==
    /\ WorkspaceRendered
    /\ IF analysis = Null
       THEN handleAnalyze("analysis")
       ELSE /\ activeTab' = "analysis"
            /\ UNCHANGED <<isAnalyzing, analyzeCalls>>
    /\ UNCHANGED <<status, currentFile, pdfDoc, totalPages, extractedPages,
                   processingProgress, editorText, analysis, showConfig,
                   loadCall, procVars, savedZip>>

\* lines 121 and 125: an outstanding analyzeText call resolved with result
AnalyzeResolved(result) ==
    /\ analyzeCalls > 0
    /\ analysis' = Some(result)
    /\ isAnalyzing' = FALSE
    /\ analyzeCalls' = analyzeCalls - 1
    /\ UNCHANGED <<status, currentFile, pdfDoc, totalPages, extractedPages,
                   processingProgress, activeTab, editorText, showConfig,
                   loadCall, procVars, savedZip>>

\* lines 122-125: an outstanding analyzeText call rejected
AnalyzeRejected ==
    /\ analyzeCalls > 0
    /\ isAnalyzing' = FALSE
    /\ analyzeCalls' = analyzeCalls - 1
    /\ UNCHANGED <<status, currentFile, pdfDoc, totalPages, extractedPages,
                   processingProgress, activeTab, editorText, analysis,
                   showConfig, loadCall, procVars, savedZip>>

\* lines 255 and 261: the Text Editor and Images tab buttons
clickTab(tab) ==
    /\ WorkspaceRendered
    /\ activeTab' = tab
    /\ UNCHANGED <<status, currentFile, pdfDoc, totalPages, extractedPages,
                   processingProgress, editorText, analysis, isAnalyzing,
                   showConfig, loadCall, procVars, analyzeCalls, savedZip>>

\* line 293: the textarea's onChange
editText(value) ==
    /\ EditorRendered
    /\ editorText' = value
    /\ UNCHANGED <<status, currentFile, pdfDoc, totalPages, extractedPages,
                   processingProgress, activeTab, analysis, isAnalyzing,
                   showConfig, loadCall, procVars, analyzeCalls, savedZip>>

-----------------------------------------------------------------------------
(* handleDownloadImages, lines 135-143 *)

\* the Images button: the archive of the extracted pages on screen is built
\* and handed to saveAs
handleDownloadImages ==
    /\ WorkspaceRendered
    /\ savedZip' = Some([extractedPages |-> PagesRead(extractedPages),
                         zip |-> ZipPages(EmptyZip, extractedPages)])
    /\ UNCHANGED <<appVars, loadCall, procVars, analyzeCalls>>

-----------------------------------------------------------------------------
(* handleReset, lines 146-153: the New button *)

\* the reset without setAnalysis(null)
handleResetKeepsAnalysis ==
    /\ ResetRendered
    /\ currentFile' = Null
    /\ pdfDoc' = Null
    /\ extractedPages' = <<>>
    /\ editorText' = <<>>
    /\ status' = "IDLE"
    /\ UNCHANGED <<totalPages, processingProgress, activeTab, analysis,
                   isAnalyzing, showConfig, loadCall, procVars, analyzeCalls,
                   savedZip>>

handleReset ==
    /\ ResetRendered
    /\ currentFile' = Null
    /\ pdfDoc' = Null
    /\ extractedPages' = <<>>
    /\ editorText' = <<>>
    /\ analysis' = Null
    /\ status' = "IDLE"
    /\ UNCHANGED <<totalPages, processingProgress, activeTab, isAnalyzing,
                   showConfig, loadCall, procVars, analyzeCalls, savedZip>>

-----------------------------------------------------------------------------
UserStep ==
    \/ \E file \in Files : handleFileSelect(file)
    \/ onCancel
    \/ \E cfg \in ProcessingConfig : startProcessing(cfg)
    \/ clickGenerateAnalysis
    \/ clickAnalysisTab
    \/ \E tab \in {"editor", "images"} : clickTab(tab)
    \/ \E value \in EditTexts : editText(value)
    \/ handleDownloadImages
    \/ handleReset

PipelineStep ==
    \/ LoopEnter
    \/ LoopExit
    \/ RenderResolved
    \/ RenderRejected
    \/ \E text \in OcrTexts : OcrResolved(text)
    \/ OcrRejected

Next ==
    \/ UserStep
    \/ LoadResolved
    \/ LoadRejected
    \/ PipelineStep
    \/ \E result \in AnalysisResults : AnalyzeResolved(result)
    \/ AnalyzeRejected

Spec == Init /\ [][Next]_vars

\* every render and OCR call returns, and the loop goes on when it can
FairSpec == Spec /\ WF_vars(PipelineStep)

-----------------------------------------------------------------------------
(* Properties *)

TypeOK ==
    /\ status \in AppStatus
    /\ activeTab \in Tabs
    /\ isAnalyzing \in BOOLEAN
    /\ showConfig \in BOOLEAN
    /\ procPc \in {"idle", "loop", "render", "ocr"}
    /\ i \in 0..Len(pagesToProcess)
    /\ analyzeCalls \in 0..MaxCalls
    /\ (procPc # "idle") = (status = "PROCESSING")
    /\ (loadCall # Null) = (status = "LOADING_PDF")

\* the loop of lines 83-109 has ended and line 111 is next
LoopFinished == procPc = "loop" /\ ~(i < Len(pagesToProcess))

IsRender(e) == e.op = "render"

\* the pages the run has called renderPageAsImage for, in call order
RenderedPages ==
    LET r == SelectSeq(history, IsRender) IN [k \in 1..Len(r) |-> r[k].page]

\* the calls of one kind the run has made for a page
CallsFor(op, pageNum) ==
    {k \in 1..Len(history) : history[k].op = op /\ history[k].page = pageNum}

Failed(pageNum) ==
    \E k \in 1..Len(history) : history[k].page = pageNum /\ ~history[k].ok

Succeeded(pageNum) ==
    \E k \in 1..Len(history) :
        history[k].page = pageNum /\ history[k].op = "ocr" /\ history[k].ok

\* the text performOCR returned for a page that succeeded
TextOf(pageNum) ==
    history[CHOOSE k \in 1..Len(history) :
                history[k].page = pageNum /\ history[k].op = "ocr"
                    /\ history[k].ok].text

Contains(s, sub) ==
    \E k \in 1..(Len(s) - Len(sub) + 1) : SubSeq(s, k, k + Len(sub) - 1) = sub

\* the text "--- Page k ---"
Marker(k) ==
    <<"-", "-", "-", " ", "P", "a", "g", "e", " ">> \o NumberToString(k)
        \o <<" ", "-", "-", "-">>

Blank(s) == \A k \in 1..Len(s) : s[k] \in {" ", NL, "\t", "\r"}

\* C1: the page numbers a run visits are those the configuration names:
\* 1..totalPages for ALL, a..b for RANGE (none when a > b), p alone for
\* SINGLE whatever totalPages is; the pages rendered so far are the first of
\* them, in order, and all of them when the loop has ended.
ExpectedPages(cfg, total) ==
    IF cfg.mode = "ALL" THEN [k \in 1..total |-> k]
    ELSE IF cfg.mode = "RANGE"
         THEN IF cfg.rangeStart <= cfg.rangeEnd
              THEN [k \in 1..(cfg.rangeEnd - cfg.rangeStart + 1) |->
                        cfg.rangeStart + k - 1]
              ELSE <<>>
         ELSE <<cfg.singlePage>>

C1_VisitedSequence ==
    procPc # "idle" =>
        LET e == ExpectedPages(config[1], totalPages)
            r == RenderedPages
        IN /\ pagesToProcess = e
           /\ Len(r) <= Len(e)
           /\ \A k \in 1..Len(r) : r[k] = e[k]
           /\ LoopFinished => Len(r) = Len(e)

\* a SINGLE run on a page past the document's last page has visited it
C1_Witness ==
    /\ LoopFinished
    /\ config[1].mode = "SINGLE"
    /\ config[1].singlePage > totalPages
    /\ RenderedPages = <<config[1].singlePage>>

\* every page of the visited sequence was rendered once, and recognised once
\* if the render succeeded and not at all otherwise
AttemptedOnce ==
    \A k \in 1..Len(pagesToProcess) :
        LET n == pagesToProcess[k] IN
        /\ Cardinality(CallsFor("render", n)) = 1
        /\ Cardinality(CallsFor("ocr", n)) =
               IF \E j \in CallsFor("render", n) : history[j].ok THEN 1 ELSE 0

\* C2 as stated: when the loop has ended, a page whose render or OCR failed
\* has no extracted page and the editor text does not contain its marker, and
\* every page was attempted exactly once.
C2_AsStated ==
    LoopFinished =>
        /\ AttemptedOnce
        /\ \A k \in 1..Len(pagesToProcess) :
               Failed(pagesToProcess[k]) =>
                   /\ \A j \in 1..Len(extractedPages) :
                          extractedPages[j].pageNumber # pagesToProcess[k]
                   /\ ~Contains(editorText, Marker(pagesToProcess[k]))

\* C2 amended: as C2, but the marker of a failed page occurs in the editor
\* text only where the recognised text of a page that succeeded contains it.
C2_FailedPageSkipped ==
    LoopFinished =>
        /\ AttemptedOnce
        /\ \A k \in 1..Len(pagesToProcess) :
               Failed(pagesToProcess[k]) =>
                   /\ \A j \in 1..Len(extractedPages) :
                          extractedPages[j].pageNumber # pagesToProcess[k]
                   /\ Contains(editorText, Marker(pagesToProcess[k])) =>
                          \E j \in 1..Len(pagesToProcess) :
                              /\ Succeeded(pagesToProcess[j])
                              /\ Contains(TextOf(pagesToProcess[j]),
                                          Marker(pagesToProcess[k]))

\* a run has ended with a page failed at OCR whose marker the recognised text
\* of another page has brought into the editor text
C2_Witness ==
    /\ LoopFinished
    /\ \E k \in 1..Len(history) :
           /\ history[k].op = "ocr" /\ ~history[k].ok
           /\ Contains(editorText, Marker(history[k].page))
    /\ Len(extractedPages) >= 1

\* the blocks of the pages of ps that succeeded, in the order of ps
RECURSIVE ExpectedText(_)
ExpectedText(ps) ==
    IF ps = <<>> THEN <<>>
    ELSE (IF Succeeded(Head(ps))
          THEN <<NL, NL>> \o Marker(Head(ps)) \o <<NL, NL>> \o TextOf(Head(ps))
          ELSE <<>>) \o ExpectedText(Tail(ps))

IsSucceeded(pageNum) == Succeeded(pageNum)

\* C3: when the loop has ended, the editor text is the blocks
\* "\n\n--- Page n ---\n\n" text_n of the pages that succeeded in this run, in
\* visited order, and the extracted pages are those pages in that order.
C3_TextIsConcatenation ==
    LoopFinished =>
        LET ok == SelectSeq(pagesToProcess, IsSucceeded) IN
        /\ editorText = ExpectedText(pagesToProcess)
        /\ Len(extractedPages) = Len(ok)
        /\ \A k \in 1..Len(ok) :
               /\ extractedPages[k].pageNumber = ok[k]
               /\ extractedPages[k].text = TextOf(ok[k])

\* a run after an earlier one (whose analysis is still awaited) has ended
\* with two pages extracted
C3_Witness ==
    /\ LoopFinished
    /\ Len(extractedPages) >= 2
    /\ analyzeCalls > 0

\* C4: from PROCESSING the status only goes to COMPLETED, and only when every
\* page of the visited sequence has been attempted; no user action is
\* enabled in PROCESSING; and PROCESSING leads to COMPLETED.
C4_RunsToCompletion ==
    /\ [][status = "PROCESSING" =>
            \/ status' = "PROCESSING"
            \/ /\ status' = "COMPLETED"
               /\ RenderedPages = pagesToProcess]_vars
    /\ [](status = "PROCESSING" => ~ENABLED UserStep)
    /\ ((status = "PROCESSING") ~> (status = "COMPLETED"))

\* a run on an empty visited sequence is in PROCESSING
C4_Witness ==
    /\ status = "PROCESSING"
    /\ procPc = "loop"
    /\ pagesToProcess = <<>>

\* C5: every change of status is one of the six transitions, each by its
\* handler.
C5_Transitions ==
    [][status' # status =>
        \/ /\ status = "IDLE" /\ status' = "LOADING_PDF"
           /\ \E file \in Files : handleFileSelect(file)
        \/ /\ status = "LOADING_PDF" /\ status' = "IDLE"
           /\ LoadResolved /\ showConfig'
        \/ /\ status = "LOADING_PDF" /\ status' = "ERROR"
           /\ LoadRejected
        \/ /\ status = "IDLE" /\ status' = "PROCESSING"
           /\ \E cfg \in ProcessingConfig : startProcessing(cfg)
        \/ /\ status = "PROCESSING" /\ status' = "COMPLETED"
           /\ LoopExit
        \/ /\ status = "COMPLETED" /\ status' = "IDLE"
           /\ handleReset]_vars

\* a load has failed after a whole session was processed and reset
C5_Witness ==
    /\ status = "ERROR"
    /\ processingProgress.total > 0

\* C6: in ERROR the file can be selected again.
C6_ErrorRecoverable ==
    status = "ERROR" => ENABLED (\E file \in Files : handleFileSelect(file))

\* C7: reset is offered only in COMPLETED, and the step from COMPLETED to
\* IDLE leaves no extracted page, no editor text, no analysis, no document
\* and no file.
C7_ResetClears ==
    [][/\ handleReset => status = "COMPLETED"
       /\ (status = "COMPLETED" /\ status' = "IDLE") =>
              /\ extractedPages' = <<>>
              /\ editorText' = <<>>
              /\ analysis' = Null
              /\ pdfDoc' = Null
              /\ currentFile' = Null
              /\ status' = "IDLE"]_vars

\* a session in which pages were extracted has been reset
C7_Witness ==
    /\ status = "IDLE"
    /\ processingProgress.current > 0
    /\ pdfDoc = Null
    /\ currentFile = Null
    /\ extractedPages = <<>>
    /\ editorText = <<>>
    /\ analysis = Null

\* C8: no analyzeText call is issued on a blank editor text, and a click on
\* Generate Analysis or on the AI Analysis tab with a blank editor text
\* leaves the analysis, the analyzing flag and the outstanding calls alone.
C8_BlankIsNoOp ==
    [][/\ analyzeCalls' > analyzeCalls => ~Blank(editorText)
       /\ (Blank(editorText) /\ (clickGenerateAnalysis \/ clickAnalysisTab)) =>
              UNCHANGED <<analysis, isAnalyzing, analyzeCalls>>]_vars

\* the analysis tab was opened on a whitespace-only text and nothing was
\* called
C8_Witness ==
    /\ status = "COMPLETED"
    /\ activeTab = "analysis"
    /\ editorText # <<>>
    /\ Blank(editorText)
    /\ analysis = Null
    /\ analyzeCalls = 0

\* C9: no two extracted pages share a page number, and an archive has one
\* member per extracted page it was built from, named page_{pageNumber}.jpg
\* and holding that page's image data.
C9_OneMemberPerPage ==
    /\ \A j, k \in 1..Len(extractedPages) :
           extractedPages[j].pageNumber = extractedPages[k].pageNumber => j = k
    /\ savedZip # Null =>
           LET job == savedZip[1] IN
           /\ Cardinality(DOMAIN job.zip) = Len(job.extractedPages)
           /\ \A k \in 1..Len(job.extractedPages) :
                  LET name == <<"p", "a", "g", "e", "_">>
                                  \o NumberToString(job.extractedPages[k].pageNumber)
                                  \o <<".", "j", "p", "g">>
                  IN /\ name \in DOMAIN job.zip
                     /\ job.zip[name] = job.extractedPages[k].imageUrl[2]

\* an archive of two extracted pages has been saved
C9_Witness ==
    /\ savedZip # Null
    /\ Len(savedZip[1].extractedPages) >= 2

\* C10: at most one analyzeText call is outstanding, and the analyzing flag
\* is true exactly while one is.
C10_SingleAnalysis ==
    /\ analyzeCalls <= 1
    /\ isAnalyzing = (analyzeCalls > 0)

\* C11: an analyzeText call that is outstanding when the user resets never
\* writes its result after the reset: in every state whose status is IDLE,
\* LOADING_PDF or PROCESSING the analysis result is unset.
C11_AnalysisOfCurrentSession ==
    status \in {"IDLE", "LOADING_PDF", "PROCESSING"} => analysis = Null

\* C12: when the loop is at its head having handled the pages at indices
\* 0..i-1, the progress counters are current = i and total = length of the
\* visited sequence; 0 <= current <= total in every state; and when the loop
\* is about to set COMPLETED on a non-empty visited sequence, current = total.
C12_ProgressFollowsLoop ==
    /\ 0 <= processingProgress.current
    /\ processingProgress.current <= processingProgress.total
    /\ (procPc = "loop" /\ i > 0) =>
           /\ processingProgress.current = i
           /\ processingProgress.total = Len(pagesToProcess)
    /\ (LoopFinished /\ pagesToProcess # <<>>) =>
           processingProgress.current = processingProgress.total

====
